---- MODULE Spec2Model ----
(***************************************************************************)
(* State-machine model of yasa.staging.SleepStaging (src/yasa/staging.py): *)
(* construction, fit, get_features, classifier loading and validation,     *)
(* predict and predict_proba, together with the caller that keeps and      *)
(* mutates the data frames it was handed.                                  *)
(*                                                                         *)
(* Data frames are heap objects (pandas passes them by reference): a frame *)
(* is a sequence of columns, each a label and its content, plus a row      *)
(* count.  The numbers inside a column come from third-party numerics      *)
(* (scipy, mne, sklearn, entropy); a column's content is abstracted to one *)
(* integer that is a function of the recording and of the feature the      *)
(* column was computed as.  Labels are the real strings.                   *)
(***************************************************************************)
EXTENDS Integers, Sequences, FiniteSets, TLC

(***************************************************************************)
(* Bounds of the model.                                                    *)
(***************************************************************************)
\* Data frames the caller keeps at the same time.
MaxHeld == 2
\* Public calls made on one instance.
MaxCalls == 2

(***************************************************************************)
(* Program constants.                                                      *)
(***************************************************************************)
\* assert sf > 80, 'Sampling frequency must be at least 80 Hz.'
SfLimit == 80
\* raw_pick.resample(100, npad="auto"); sf = 100
TargetSf == 100
\* sliding_window(dt_filt, sf=sf, window=30)
EpochSec == 30
\* assert duration_minutes >= 5
MinMinutes == 5

\* Python's None where a string is expected; the other types have a null
\* value of their own shape below.
None == "None"
\* No exception.
NoErr == [type |-> None, msg |-> "", names |-> << >>]
Raised(e) == e.type # None
\* The null reference.
NoRef == 0
\* metadata=None, and a dict given as its items in insertion order.
NoMeta == [has |-> FALSE, items |-> << >>]
Dict(items) == [has |-> TRUE, items |-> items]

(***************************************************************************)
(* Python string order (sort_index on a string Index compares labels by    *)
(* code point).  Chars lists the characters that occur in labels in        *)
(* ascending code-point order: digits < upper case < '_' < lower case.     *)
(***************************************************************************)
Chars ==
  << "0", "1", "2", "3", "4", "5", "6", "7", "8", "9",
     "A", "B", "C", "D", "E", "F", "G", "H", "I", "J", "K", "L", "M",
     "N", "O", "P", "Q", "R", "S", "T", "U", "V", "W", "X", "Y", "Z",
     "_",
     "a", "b", "c", "d", "e", "f", "g", "h", "i", "j", "k", "l", "m",
     "n", "o", "p", "q", "r", "s", "t", "u", "v", "w", "x", "y", "z" >>

Ord ==
  [c \in {Chars[i] : i \in 1..Len(Chars)} |->
      CHOOSE i \in 1..Len(Chars) : Chars[i] = c]

\* s < t: s is a proper prefix of t, or at the first place where they
\* differ s has the smaller character.
Char(s, i) == SubSeq(s, i, i)
StrLess(s, t) ==
  \/ Len(s) < Len(t) /\ SubSeq(t, 1, Len(s)) = s
  \/ \E i \in 1..(IF Len(s) < Len(t) THEN Len(s) ELSE Len(t)) :
       /\ SubSeq(s, 1, i - 1) = SubSeq(t, 1, i - 1)
       /\ Char(s, i) # Char(t, i)
       /\ Ord[Char(s, i)] < Ord[Char(t, i)]

\* Op applied to the value of v, with v evaluated once.
Bind(v, Op(_)) == CHOOSE y \in {Op(x) : x \in {v}} : TRUE

Range(f) == Bind(f, LAMBDA g : {g[i] : i \in DOMAIN g})

RECURSIVE Concat(_)
Concat(ss) == IF ss = << >> THEN << >> ELSE Head(ss) \o Concat(Tail(ss))

(***************************************************************************)
(* Data frames.  A column is [name, val]; a frame is [cols, nrows].        *)
(***************************************************************************)
Col(n, v) == [name |-> n, val |-> v]
Frame(cs, n) == [cols |-> cs, nrows |-> n]
Names(cs) == Bind(cs, LAMBDA c : [i \in DOMAIN c |-> c[i].name])

\* DataFrame.__setitem__ with a scalar or an array: an existing label keeps
\* its position and gets the new content, a new label is appended.
SetItem(cs, n, v) ==
  Bind(cs, LAMBDA c :
    IF \E i \in DOMAIN c : c[i].name = n
    THEN [i \in DOMAIN c |-> IF c[i].name = n THEN Col(n, v) ELSE c[i]]
    ELSE Append(c, Col(n, v)))

\* DataFrame.add_prefix / add_suffix
AddPrefix(cs, p) ==
  Bind(cs, LAMBDA c : [i \in DOMAIN c |-> Col(p \o c[i].name, c[i].val)])
AddSuffix(cs, s) ==
  Bind(cs, LAMBDA c : [i \in DOMAIN c |-> Col(c[i].name \o s, c[i].val)])

\* DataFrame.sort_index(axis=1): the columns, content and label together, in
\* ascending label order; columns with equal labels keep their order.  A
\* column's place is one more than the number of columns that go before it.
Before(cs, k, j) ==
  StrLess(cs[k].name, cs[j].name) \/ (cs[k].name = cs[j].name /\ k < j)

Place(cs) ==
  [j \in DOMAIN cs |-> 1 + Cardinality({k \in DOMAIN cs : Before(cs, k, j)})]

SortColumns(cs) ==
  Bind(cs, LAMBDA c :
    Bind(Place(c), LAMBDA place :
      [i \in DOMAIN c |-> c[CHOOSE j \in DOMAIN c : place[j] = i]]))

\* The same call with the sort dropped.
SortIndexNoSort(cs) == cs
SortIndex(cs) == SortColumns(cs)

IsSorted(ns) == \A i \in 1..(Len(ns) - 1) : ~StrLess(ns[i + 1], ns[i])

(***************************************************************************)
(* Epoching.  yasa.others.sliding_window is not part of the sources; it is *)
(* modelled from the specification: non-overlapping windows of             *)
(* window * sf samples, the trailing partial window dropped.               *)
(***************************************************************************)
SamplesPerEpoch(sf) == EpochSec * sf
NEpochsCeil(n, sf) == (n + SamplesPerEpoch(sf) - 1) \div SamplesPerEpoch(sf)
NEpochs(n, sf) == n \div SamplesPerEpoch(sf)

(***************************************************************************)
(* fit: the features of one channel, in the order the dict feat is filled. *)
(***************************************************************************)
StatNames == << "std", "iqr", "skew", "kurt", "nzc", "hmob", "hcomp" >>
BandNames == << "sdelta", "fdelta", "theta", "alpha", "sigma", "beta" >>
RatioNames == << "dt", "ds", "db", "at" >>
TailNames == << "abspow", "perm", "higuchi", "petrosian" >>

ChannelFeatureNames(c) ==
  StatNames
    \o (IF c # "emg" THEN BandNames ELSE << >>)
    \o (IF c = "eeg" THEN RatioNames ELSE << >>)
    \o TailNames

(***************************************************************************)
(* Content of a column, as one integer.  sig identifies the samples of the *)
(* recording; ch is the channel's row in data and k the feature's place in *)
(* the dict feat.  The rolling means and robust_scale turn a column into   *)
(* another column of the same length.                                      *)
(***************************************************************************)
BaseVal(sig, ch, k) == sig * 10000 + ch * 1000 + k * 10
RollC(v) == v + 1
RollP(v) == v + 2
\* times / 3600 and times / times[-1], named by their last row:
\* times[-1] = 30 * (n_epochs - 1) seconds.
TimeHour(n) == EpochSec * (n - 1)
TimeNorm(n) == IF n > 1 THEN 1 ELSE 0

\* feat = pd.DataFrame(feat).add_prefix(c + '_') for channel number ch of
\* type c.
ChannelFrame(sig, ch, c) ==
  AddPrefix([k \in DOMAIN ChannelFeatureNames(c) |->
               Col(ChannelFeatureNames(c)[k], BaseVal(sig, ch, k))],
            c \o "_")

MapVal(cs, F(_)) ==
  Bind(cs, LAMBDA c : [i \in DOMAIN c |-> Col(c[i].name, F(c[i].val))])

RECURSIVE SetItems(_, _)
SetItems(cs, kvs) ==
  IF kvs = << >> THEN cs
  ELSE SetItems(SetItem(cs, Head(kvs).k, Head(kvs).v), Tail(kvs))

\* The number of epochs fit gets for one channel of n samples.
FitEpochsPartial(n, sf) == NEpochsCeil(n, sf)
FitEpochs(n, sf) == NEpochs(n, sf)

Max(S) == CHOOSE x \in S : \A y \in S : y <= x
Min(S) == CHOOSE x \in S : \A y \in S : x <= y

\* Epochs per channel, in channel order.
ChannelEpochs(s) ==
  [i \in DOMAIN s.ch_types |-> FitEpochs(s.data.n[i], s.sf)]

\* The frame fit builds from the instance s, before the final sort:
\* the channels' features side by side, their two smoothed and normalised
\* versions, the two time columns, the metadata.
FitUnsorted(s) ==
  Bind(Concat([i \in DOMAIN s.ch_types |->
                 ChannelFrame(s.data.sig, i, s.ch_types[i])]),
       LAMBDA base :
    Bind(Max(Range(ChannelEpochs(s))), LAMBDA n :
      Bind(SetItem(SetItem(base
                             \o AddSuffix(MapVal(base, RollC), "_c5min_norm")
                             \o AddSuffix(MapVal(base, RollP), "_p5min_norm"),
                           "time_hour", TimeHour(n)),
                   "time_norm", TimeNorm(n)),
           LAMBDA timed :
        Frame(IF s.metadata.has THEN SetItems(timed, s.metadata.items)
              ELSE timed,
              n))))

FitFrame(s) ==
  Bind(FitUnsorted(s), LAMBDA f : Frame(SortIndex(f.cols), f.nrows))

(***************************************************************************)
(* __init__.  An argument record a holds raw's sampling rate and length,   *)
(* the three channel names, the metadata (a dict or None) and the          *)
(* recording's samples: sig                                                *)
(* names them, finite says whether every feature computed from them is     *)
(* finite.                                                                 *)
(***************************************************************************)
RawChannels == {"C4-M1", "LOC-M2", "EMG1-EMG2"}

MetaHas(md, key) == md.has /\ \E i \in DOMAIN md.items : md.items[i].k = key
MetaGet(md, key) ==
  md.items[CHOOSE i \in DOMAIN md.items : md.items[i].k = key].v

NoSelf ==
  [sf |-> 0, ch_names |-> << >>, ch_types |-> << >>,
   data |-> [n |-> << >>, sig |-> 0, finite |-> FALSE], metadata |-> NoMeta]

\* mne's resample to 100 Hz: the new length is the old one times the ratio
\* of the rates, rounded.
Resample(n, sf) == (2 * n * TargetSf + sf) \div (2 * sf)

\* duration_minutes = data.shape[1] / sf / 60 >= 5
DurationOk(n, sf) == n >= MinMinutes * 60 * sf

\* assert sf > 80
SfOk(sf) == sf > SfLimit

Raise(t, m, ns) == [type |-> t, msg |-> m, names |-> ns]

New(a) ==
  LET md == a.metadata
      names == << a.eeg_name, a.eog_name, a.emg_name >>
      types == << "eeg", "eog", "emg" >>
      kept == SelectSeq(<< 1, 2, 3 >>, LAMBDA i : names[i] # None)
      unknown == SelectSeq(kept, LAMBDA i : names[i] \notin RawChannels)
      n == IF a.sfreq # TargetSf THEN Resample(a.n_times, a.sfreq)
           ELSE a.n_times
      fail(m) == [err |-> Raise("AssertionError", m, << >>), self |-> NoSelf]
  IN  IF MetaHas(md, "age")
         /\ ~(0 < MetaGet(md, "age") /\ MetaGet(md, "age") < 120)
      THEN fail("age must be between 0 and 120.")
      ELSE IF MetaHas(md, "male") /\ MetaGet(md, "male") \notin {0, 1}
      THEN fail("male must be 0 or 1.")
      ELSE IF unknown # << >>
      THEN fail(names[unknown[1]] \o " does not exist")
      ELSE IF ~SfOk(a.sfreq)
      THEN fail("Sampling frequency must be at least 80 Hz.")
      ELSE IF ~DurationOk(n, TargetSf)
      THEN fail("At least 5 minutes of data is required.")
      ELSE [err |-> NoErr,
            self |-> [sf |-> TargetSf,
                      ch_names |-> [i \in DOMAIN kept |-> names[kept[i]]],
                      ch_types |-> [i \in DOMAIN kept |-> types[kept[i]]],
                      data |-> [n |-> [i \in DOMAIN kept |-> n],
                                sig |-> a.sig, finite |-> a.finite],
                      metadata |-> md]]

(***************************************************************************)
(* Constructor arguments.                                                  *)
(***************************************************************************)
Arg(sf, n, eeg, eog, emg, md, sig, fin) ==
  [sfreq |-> sf, n_times |-> n, eeg_name |-> eeg, eog_name |-> eog,
   emg_name |-> emg, metadata |-> md, sig |-> sig, finite |-> fin]

NoArgs == Arg(0, 0, None, None, None, NoMeta, 0, FALSE)

Age(v) == [k |-> "age", v |-> v]
Male(v) == [k |-> "male", v |-> v]

\* Constructor arguments tried: rates around the limit and the target,
\* lengths around five minutes and around an epoch boundary, known and
\* unknown channel names, valid and invalid metadata.
SfChoices == {79, 80, 81, 100, 128}
NTimesChoices == {29999, 30000, 32999, 33000, 38400}
MetaChoices ==
  {NoMeta, Dict(<< >>), Dict(<< Age(29) >>), Dict(<< Age(29), Male(1) >>),
   Dict(<< Male(0), Age(61) >>), Dict(<< Age(0) >>), Dict(<< Age(120) >>),
   Dict(<< Male(2) >>)}

AllArgs ==
  {Arg(sf, n, eeg, eog, emg, md, 1, TRUE) :
     sf \in SfChoices, n \in NTimesChoices, eeg \in {"C4-M1", "Cz"},
     eog \in {None, "LOC-M2"}, emg \in {None, "EMG1-EMG2"},
     md \in MetaChoices}

\* The recordings whose life after construction is followed: EEG and EOG
\* without metadata; EEG and EMG, for which no classifier is packaged; EEG
\* with an age but no sex; all three channels with both, resampled; and a
\* recording whose features are not all finite.
LifeArgs ==
  {Arg(100, 32999, "C4-M1", "LOC-M2", None, NoMeta, 1, TRUE),
   Arg(100, 32999, "C4-M1", None, "EMG1-EMG2",
       Dict(<< Age(29), Male(1) >>), 1, TRUE),
   Arg(100, 32999, "C4-M1", None, None, Dict(<< Age(29) >>), 2, TRUE),
   Arg(128, 42240, "C4-M1", "LOC-M2", "EMG1-EMG2",
       Dict(<< Male(0), Age(61) >>), 2, TRUE),
   Arg(100, 32999, "C4-M1", "LOC-M2", None, NoMeta, 1, FALSE)}

\* The recordings fit is run on in SpecFit.
FitArgs ==
  {Arg(sf, n, "C4-M1", eog, emg, md, sig, TRUE) :
     sf \in {100, 128}, n \in {32999, 42240},
     eog \in {None, "LOC-M2"}, emg \in {None, "EMG1-EMG2"},
     md \in {NoMeta, Dict(<< >>), Dict(<< Age(29) >>),
             Dict(<< Age(29), Male(1) >>), Dict(<< Male(0), Age(61) >>)},
     sig \in {1}}

\* fit's frame for the recordings of LifeArgs, computed once.
LifeFrames ==
  [s \in {New(a).self : a \in LifeArgs} \ {NoSelf} |-> FitFrame(s)]

FitFrameOf(s) == IF s \in DOMAIN LifeFrames THEN LifeFrames[s] ELSE FitFrame(s)

(***************************************************************************)
(* The heap of data frames.  A location holds a frame or NoFrame (free).   *)
(* attrs are the attributes the methods add to the instance: _features and *)
(* _proba are references to frames, _predicted is an array of labels;      *)
(* hasattr(self, x) is attrs.x not being null.                             *)
(***************************************************************************)
Locs == 1..(MaxHeld + 3)

NoFrame == Frame(<< >>, 0)
NoBy == [clf |-> None, call |-> 0]
NoLabels == [n |-> 0, v |-> 0, by |-> NoBy]

NoAttrs ==
  [features |-> NoRef, feature_name_ |-> << >>, predicted |-> NoLabels,
   proba |-> NoRef, proba_src |-> NoBy]

HeldRefs(hd) == {hd[i].ref : i \in DOMAIN hd}
Live(at, hd) == ({at.features, at.proba} \cup HeldRefs(hd)) \ {NoRef}

\* Frames nothing refers to any more are collected.
Collect(h, at, hd) ==
  [l \in Locs |-> IF l \in Live(at, hd) THEN h[l] ELSE NoFrame]

\* What a call returns: None, a reference to a frame, or an array of labels.
RetNone == [kind |-> None, ref |-> NoRef, labels |-> NoLabels]
RetFrame(l) == [kind |-> "frame", ref |-> l, labels |-> NoLabels]
RetLabels(a) == [kind |-> "labels", ref |-> NoRef, labels |-> a]
RetSelf == [kind |-> "self", ref |-> NoRef, labels |-> NoLabels]

\* hasattr(self, '_features') and hasattr(self, '_proba'), with the variants
\* a slip would give.
HasFeaturesAlways(at) == TRUE
HasFeatures(at) == at.features # NoRef
HasProbaNever(at) == FALSE
HasProba(at) == at.proba # NoRef

\* The frame a reference designates.
Deref(h, l) == IF l = NoRef THEN NoFrame ELSE h[l]

\* A location for a new frame, given the references that stay live.
NewLoc(live) == Min(Locs \ live)

\* What a step of a call leaves: the attributes, the heap, the steps taken
\* so far, the exception raised (or NoErr), the value returned, and the
\* table handed to the classifier (or NoFrame).
Result(at, h, ev, raised, ret, X) ==
  [at |-> at, h |-> h, ev |-> ev, raised |-> raised, ret |-> ret, X |-> X]

(***************************************************************************)
(* _validate_predict                                                       *)
(***************************************************************************)
RECURSIVE SortedSeq(_)
SortedSeq(S) ==
  IF S = {} THEN << >>
  ELSE LET m == CHOOSE x \in S : \A y \in S \ {x} : StrLess(x, y)
       IN  << m >> \o SortedSeq(S \ {m})

\* np.setdiff1d(a, b): the sorted, unique values of a that are not in b.
SetDiff1d(a, b) == SortedSeq(Range(a) \ Range(b))

MsgClfOnly ==
  "The following features are present in the classifier but not in the current features set:"
MsgOwnOnly ==
  "The following features are present in the current feature set but not in the classifier:"

\* Variants: the second check left out; the first check reporting the other
\* difference.
ValidatePredictFirstOnly(cn, fn) ==
  Bind(SetDiff1d(cn, fn), LAMBDA f_diff :
    IF Len(f_diff) > 0 THEN Raise("ValueError", MsgClfOnly, f_diff)
    ELSE NoErr)
ValidatePredictSwapped(cn, fn) ==
  Bind(<< SetDiff1d(cn, fn), SetDiff1d(fn, cn) >>, LAMBDA f_diff :
    IF Len(f_diff[1]) > 0 THEN Raise("ValueError", MsgClfOnly, f_diff[2])
    ELSE IF Len(f_diff[2]) > 0 THEN Raise("ValueError", MsgOwnOnly, f_diff[2])
    ELSE NoErr)

\* cn is clf.feature_name_, fn is self.feature_name_; the exception raised,
\* or NoErr.
ValidatePredict(cn, fn) ==
  Bind(<< SetDiff1d(cn, fn), SetDiff1d(fn, cn) >>, LAMBDA f_diff :
    IF Len(f_diff[1]) > 0 THEN Raise("ValueError", MsgClfOnly, f_diff[1])
    ELSE IF Len(f_diff[2]) > 0 THEN Raise("ValueError", MsgOwnOnly, f_diff[2])
    ELSE NoErr)

(***************************************************************************)
(* Classifier files.  A classifier is its feature_name_, its classes_, a   *)
(* seed its outputs depend on, and whether its predict or predict_proba    *)
(* raises on this data.                                                    *)
(***************************************************************************)
Classes == << "N1", "N2", "N3", "R", "W" >>

Clf(id, seed, names, pr, pp) ==
  [id |-> id, seed |-> seed, feature_name_ |-> names, classes_ |-> Classes,
   predict_raises |-> pr, proba_raises |-> pp]

NoClf == Clf(None, 0, << >>, FALSE, FALSE)

\* name = 'clf_eeg' (+ '+eog') (+ '+emg') (+ '+demo');
\* path_to_model = clf_dir + name + '_lgb_' + yv + '.joblib'
AutoPath(s) ==
  "classifiers/clf_eeg"
    \o (IF "eog" \in Range(s.ch_types) THEN "+eog" ELSE "")
    \o (IF "emg" \in Range(s.ch_types) THEN "+emg" ELSE "")
    \o (IF s.metadata.has THEN "+demo" ELSE "")
    \o "_lgb_0.4.0.joblib"

\* The instances the packaged classifiers were trained for: EEG alone, with
\* EOG, with EOG and EMG, each with and without age and sex.
TrainedFor(types, demo) ==
  [sf |-> TargetSf, ch_names |-> types, ch_types |-> types,
   data |-> [n |-> [i \in DOMAIN types |-> MinMinutes * 60 * TargetSf],
             sig |-> 1, finite |-> TRUE],
   metadata |-> IF demo
                THEN Dict(<< [k |-> "age", v |-> 30], [k |-> "male", v |-> 1] >>)
                ELSE NoMeta]

PackagedInstances ==
  {TrainedFor(t, d) : t \in {<< "eeg" >>, << "eeg", "eog" >>,
                             << "eeg", "eog", "emg" >>},
                      d \in BOOLEAN}

Packaged ==
  [p \in {AutoPath(t) : t \in PackagedInstances} |->
     LET t == CHOOSE t \in PackagedInstances : AutoPath(t) = p
     IN  Clf(p, 3, Names(FitFrame(t).cols), FALSE, FALSE)]

Reverse(q) == [i \in DOMAIN q |-> q[Len(q) + 1 - i]]

\* Classifiers the user trained, relative to the feature list fn of this
\* recording: the same features in another order, one feature fewer, one
\* more, both, and two whose prediction calls raise.
UserPaths ==
  {"same.joblib", "fewer.joblib", "more.joblib", "skew.joblib",
   "badpredict.joblib", "badproba.joblib"}

Rest(q) == IF q = << >> THEN << >> ELSE Tail(q)

UserClf(p, fn) ==
  CASE p = "same.joblib" -> Clf(p, 5, Reverse(fn), FALSE, FALSE)
    [] p = "fewer.joblib" -> Clf(p, 7, Rest(fn), FALSE, FALSE)
    [] p = "more.joblib" -> Clf(p, 7, Append(fn, "eeg_lziv"), FALSE, FALSE)
    [] p = "skew.joblib" ->
         Clf(p, 7, Append(Rest(fn), "eeg_lziv"), FALSE, FALSE)
    [] p = "badpredict.joblib" -> Clf(p, 7, fn, TRUE, FALSE)
    [] p = "badproba.joblib" -> Clf(p, 11, fn, FALSE, TRUE)

\* The paths a caller passes: the default, the user's files, and a path
\* that names no file.
Paths == {"auto", "absent.joblib"} \cup UserPaths

IsFile(p) == p \in DOMAIN Packaged \/ p \in UserPaths
JoblibLoad(p, fn) == IF p \in DOMAIN Packaged THEN Packaged[p] ELSE UserClf(p, fn)

(***************************************************************************)
(* _load_model: the classifier loaded and the exception raised (or NoErr). *)
(***************************************************************************)
LoadModel(s, fn, path_to_model) ==
  LET path == IF path_to_model = "auto" THEN AutoPath(s) ELSE path_to_model
  IN  IF ~IsFile(path)
      THEN [clf |-> NoClf,
            raised |-> Raise("AssertionError", "File does not exist.", << >>)]
      ELSE Bind(JoblibLoad(path, fn), LAMBDA clf :
             [clf |-> clf, raised |-> ValidatePredict(clf.feature_name_, fn)])

(***************************************************************************)
(* fit                                                                     *)
(***************************************************************************)
\* The value fit returns: the method ends without a return statement.
FitReturn == RetNone

\* A variant that checks the default classifier as soon as the features are
\* computed.
DoFitValidating(s, at, h, hd, ev) ==
  LET ev1 == Append(ev, "fit")
  IN  IF ~s.data.finite
      THEN Result(at, h, ev1,
                  Raise("ValueError", "Input contains infinity", << >>),
                  RetNone, NoFrame)
      ELSE Bind(FitFrameOf(s), LAMBDA fr :
             Bind(LoadModel(s, Names(fr.cols), "auto"), LAMBDA lm :
               LET l == NewLoc(Live([at EXCEPT !.features = NoRef], hd))
               IN  IF Raised(lm.raised)
                   THEN Result(at, h, ev1, lm.raised, RetNone, NoFrame)
                   ELSE Result([at EXCEPT !.features = l,
                                          !.feature_name_ = Names(fr.cols)],
                               [h EXCEPT ![l] = fr], ev1, NoErr, FitReturn,
                               NoFrame)))

DoFit(s, at, h, hd, ev) ==
  LET ev1 == Append(ev, "fit")
  IN  IF ~s.data.finite
      THEN \* robust_scale rejects a column holding an infinite value
           Result(at, h, ev1,
                  Raise("ValueError", "Input contains infinity", << >>),
                  RetNone, NoFrame)
      ELSE Bind(FitFrameOf(s), LAMBDA fr :
             LET l == NewLoc(Live([at EXCEPT !.features = NoRef], hd))
             IN  Result([at EXCEPT !.features = l,
                                   !.feature_name_ = Names(fr.cols)],
                        [h EXCEPT ![l] = fr], ev1, NoErr, FitReturn, NoFrame))

(***************************************************************************)
(* get_features                                                            *)
(***************************************************************************)
\* self._features.copy(): a new frame with the same columns; the pair of
\* the new heap and the reference returned.  The variant returns the
\* instance's own frame.
FeaturesCopyAlias(h, src, live) == [h |-> h, ref |-> src]
FeaturesCopy(h, src, live) ==
  LET l == NewLoc(live) IN [h |-> [h EXCEPT ![l] = Deref(h, src)], ref |-> l]

DoGetFeatures(s, at, h, hd, ev) ==
  Bind(IF ~HasFeatures(at) THEN DoFit(s, at, h, hd, ev)
       ELSE Result(at, h, ev, NoErr, RetNone, NoFrame),
       LAMBDA r :
    IF Raised(r.raised) THEN r
    ELSE Bind(FeaturesCopy(r.h, r.at.features, Live(r.at, hd)), LAMBDA c :
           Result(r.at, c.h, r.ev, NoErr, RetFrame(c.ref), NoFrame)))

(***************************************************************************)
(* predict and predict_proba                                               *)
(***************************************************************************)
\* df[names]: the named columns, in the order of names.
Project(fr, names) ==
  Bind(<< fr.cols, names >>, LAMBDA a :
    Frame([i \in DOMAIN a[2] |->
             a[1][CHOOSE j \in DOMAIN a[1] : a[1][j].name = a[2][i]]],
          fr.nrows))

\* What a classifier's output depends on: the content of X, column by
\* column in the order given.
RECURSIVE WeightedSum(_, _, _)
WeightedSum(cs, lo, hi) ==
  IF lo > hi THEN 0
  ELSE IF lo = hi THEN (lo * cs[lo].val) % 9973
  ELSE LET mid == (lo + hi) \div 2
       IN  (WeightedSum(cs, lo, mid) + WeightedSum(cs, mid + 1, hi)) % 9973
Digest(X) == Bind(X.cols, LAMBDA c : WeightedSum(c, 1, Len(c)))

\* clf.predict(X) and pd.DataFrame(clf.predict_proba(X), columns=classes_).
\* by records the classifier and the call that made them.
ClfPredict(clf, X, k) ==
  [n |-> X.nrows, v |-> (clf.seed * Digest(X)) % 9973,
   by |-> [clf |-> clf.id, call |-> k]]
ClfProba(clf, X) ==
  Bind(Digest(X), LAMBDA d :
    Frame([i \in DOMAIN clf.classes_ |->
             Col(clf.classes_[i], (clf.seed * d + i) % 9973)],
          X.nrows))

LoadSteps(s, path_to_model) ==
  << "_load_model" >>
    \o (IF IsFile(IF path_to_model = "auto" THEN AutoPath(s)
                  ELSE path_to_model)
        THEN << "joblib.load", "_validate_predict" >> ELSE << >>)

\* The classifier's part of predict: clf is loaded and validated, r is
\* what the call has done so far.
RunClassifier(r, hd, ev, clf, X, k) ==
  LET at3 == [r.at EXCEPT !.predicted = ClfPredict(clf, X, k)]
      l == NewLoc(Live([r.at EXCEPT !.proba = NoRef], hd))
  IN  IF clf.predict_raises
      THEN Result(r.at, r.h, Append(ev, "clf.predict"),
                  Raise("LightGBMError", "predict failed", << >>),
                  RetNone, X)
      ELSE IF clf.proba_raises
      THEN Result(at3, r.h, ev \o << "clf.predict", "clf.predict_proba" >>,
                  Raise("LightGBMError", "predict_proba failed", << >>),
                  RetNone, X)
      ELSE Result([at3 EXCEPT !.proba = l, !.proba_src = at3.predicted.by],
                  [r.h EXCEPT ![l] = ClfProba(clf, X)],
                  ev \o << "clf.predict", "clf.predict_proba" >>,
                  NoErr, RetLabels(at3.predicted), X)

\* k numbers the public call this predict runs in.
DoPredict(s, at, h, hd, ev, path_to_model, k) ==
  Bind(IF ~HasFeatures(at) THEN DoFit(s, at, h, hd, ev)
       ELSE Result(at, h, ev, NoErr, RetNone, NoFrame),
       LAMBDA r :
    IF Raised(r.raised) THEN r
    ELSE Bind(LoadModel(s, r.at.feature_name_, path_to_model), LAMBDA lm :
           IF Raised(lm.raised)
           THEN Result(r.at, r.h, r.ev \o LoadSteps(s, path_to_model),
                       lm.raised, RetNone, NoFrame)
           ELSE Bind(Project(Deref(r.h, r.at.features), lm.clf.feature_name_),
                     LAMBDA X :
                  RunClassifier(r, hd, r.ev \o LoadSteps(s, path_to_model),
                                lm.clf, X, k))))

DoPredictProba(s, at, h, hd, ev, path_to_model, k) ==
  Bind(IF ~HasProba(at)
       THEN DoPredict(s, at, h, hd, Append(ev, "predict"), path_to_model, k)
       ELSE Result(at, h, ev, NoErr, RetNone, NoFrame),
       LAMBDA r :
    IF Raised(r.raised) THEN r
    ELSE LET l == NewLoc(Live(r.at, hd))
         IN  Result(r.at, [r.h EXCEPT ![l] = Deref(r.h, r.at.proba)], r.ev,
                    NoErr, RetFrame(l), r.X))

(***************************************************************************)
(* plot_predict_proba.  proba is None, a data frame the caller made, or    *)
(* something that is no data frame.  The copy of self._proba it plots is   *)
(* local to the call; the axes it returns hold no frame.                   *)
(***************************************************************************)
ProbaArgs == {None, "DataFrame", "ndarray"}

RetAxes == [kind |-> "axes", ref |-> NoRef, labels |-> NoLabels]

MsgCallProbaFirst == "Must call .predict_proba before this function"
MsgNoProbaAttr == "'SleepStaging' object has no attribute '_proba'"

\* The guard of the first statement: not hasattr(self, '_features').
PlotGuard(at) == ~HasFeatures(at)

DoPlotPredictProba(at, h, ev, proba) ==
  IF proba = None /\ PlotGuard(at)
  THEN Result(at, h, ev, Raise("ValueError", MsgCallProbaFirst, << >>),
              RetNone, NoFrame)
  ELSE IF proba = None /\ ~HasProba(at)
  THEN \* proba = self._proba.copy() on an instance without _proba
       Result(at, h, ev, Raise("AttributeError", MsgNoProbaAttr, << >>),
              RetNone, NoFrame)
  ELSE IF proba = "ndarray"
  THEN Result(at, h, ev,
              Raise("AssertionError", "proba must be a dataframe", << >>),
              RetNone, NoFrame)
  ELSE Result(at, h, Append(ev, "proba.plot"), NoErr, RetAxes, NoFrame)

(***************************************************************************)
(* One column in detail.  In the frames above a column's content is one    *)
(* integer; here a base feature is the sequence of its values, one per     *)
(* epoch, and the past-only column is computed from it as fit does:        *)
(* rolling(window=10, min_periods=1).mean(), then robust_scale with        *)
(* quantile_range=(5, 95).  Values are exact rationals n/d in lowest       *)
(* terms with d > 0; floating-point rounding is left out.                  *)
(***************************************************************************)
\* features.rolling(window=10, ...)
RollWindow == 10
\* robust_scale(rollp, quantile_range=(5, 95))
QLow == 5
QHigh == 95

RECURSIVE Gcd(_, _)
Gcd(a, b) == IF b = 0 THEN a ELSE Gcd(b, a % b)
Abs(a) == IF a < 0 THEN -a ELSE a

Q(n, d) ==
  LET g == Gcd(Abs(n), Abs(d))
      sg == IF d < 0 THEN -1 ELSE 1
  IN  [n |-> (sg * n) \div g, d |-> (sg * d) \div g]
QAdd(a, b) == Q(a.n * b.d + b.n * a.d, a.d * b.d)
QSub(a, b) == Q(a.n * b.d - b.n * a.d, a.d * b.d)
QMul(a, b) == Q(a.n * b.n, a.d * b.d)
QDiv(a, b) == Q(a.n * b.d, a.d * b.n)
QLess(a, b) == a.n * b.d < b.n * a.d

RECURSIVE SumOver(_, _, _)
SumOver(x, lo, hi) == IF lo > hi THEN 0 ELSE x[lo] + SumOver(x, lo + 1, hi)

\* A variant whose window of ten epochs starts at the current epoch.
RollingAhead(x) ==
  Bind(x, LAMBDA b :
    [i \in DOMAIN b |->
       LET hi == Min({Len(b), i + RollWindow - 1})
       IN  Q(SumOver(b, i, hi), hi - i + 1)])

\* rolling(window=10, min_periods=1).mean(): at epoch i the mean of the
\* values of the epochs i-9..i that exist.
RollingPast(x) ==
  Bind(x, LAMBDA b :
    [i \in DOMAIN b |->
       LET lo == Max({1, i - RollWindow + 1})
       IN  Q(SumOver(b, lo, i), i - lo + 1)])

\* The values of a in ascending order.
SortedQ(a) ==
  Bind(a, LAMBDA c :
    Bind([v \in Range(c) |->
            << Cardinality({j \in DOMAIN c : QLess(c[j], v)}),
               Cardinality({j \in DOMAIN c : ~QLess(v, c[j])}) >>],
         LAMBDA rank :
      [k \in DOMAIN c |->
         CHOOSE v \in DOMAIN rank : rank[v][1] < k /\ k <= rank[v][2]]))

\* np.nanpercentile(a, q) from the sorted values srt of a: linear
\* interpolation between the two order statistics around position
\* (n - 1) * q / 100.
Quantile(srt, q) ==
  LET h == (Len(srt) - 1) * q
      k == h \div 100
      r == h % 100
  IN  IF r = 0 THEN srt[k + 1]
      ELSE QAdd(srt[k + 1], QMul(Q(r, 100), QSub(srt[k + 2], srt[k + 1])))

\* The centre and the scale robust_scale uses for a column: its median and
\* the distance between its two quantiles, a zero distance replaced by 1.
Stats(a) ==
  Bind(SortedQ(a), LAMBDA srt :
    Bind(<< Quantile(srt, QLow), Quantile(srt, QHigh) >>, LAMBDA qs :
      [centre |-> Quantile(srt, 50),
       scale |-> IF qs[1] = qs[2] THEN Q(1, 1) ELSE QSub(qs[2], qs[1])]))

RobustScale(a) ==
  Bind(<< a, Stats(a) >>, LAMBDA t :
    [i \in DOMAIN t[1] |-> QDiv(QSub(t[1][i], t[2].centre), t[2].scale)])

(***************************************************************************)
(* State.                                                                  *)
(*   args    the arguments of the constructor call (NoArgs before it)      *)
(*   phase   "start", "alive" (constructed) or "rejected" (__init__ raised)*)
(*   init_err the exception __init__ raised, or NoErr                      *)
(*   self    the attributes __init__ sets, or NoSelf                       *)
(*   attrs   the attributes fit and predict add                            *)
(*   heap    the data frames                                               *)
(*   held    the frames the caller keeps: reference, what call returned    *)
(*           it, and whether the caller has written to it                  *)
(*   call    the last public call: method, path argument, steps taken,     *)
(*           exception raised, value returned, table given to the          *)
(*           classifier, proba argument (plot_predict_proba)               *)
(*   ncalls  public calls made so far                                      *)
(*   roll    one base feature of two recordings (x, y), and for each its   *)
(*           past-only rolling mean (px, py) and the column fit exposes    *)
(*           (nx, ny); used by SpecRoll only                               *)
(***************************************************************************)
VARIABLES args, phase, init_err, self, attrs, heap, held, call, ncalls, roll

vars ==
  << args, phase, init_err, self, attrs, heap, held, call, ncalls, roll >>

NoCall ==
  [op |-> None, path |-> None, ev |-> << >>, raised |-> NoErr,
   ret |-> RetNone, X |-> NoFrame, proba |-> None]

NoRoll ==
  [x |-> << >>, y |-> << >>, px |-> << >>, py |-> << >>, nx |-> << >>,
   ny |-> << >>]

Blank ==
  /\ roll = NoRoll
  /\ attrs = NoAttrs
  /\ heap = [l \in Locs |-> NoFrame]
  /\ held = << >>
  /\ call = NoCall
  /\ ncalls = 0

\* The state after a successful construction.
Init ==
  /\ \E a \in LifeArgs :
       \E new \in {New(a)} :
         /\ ~Raised(new.err)
         /\ args = a
         /\ self = new.self
  /\ phase = "alive"
  /\ init_err = NoErr
  /\ Blank

\* Before construction.
InitNew ==
  /\ args = NoArgs
  /\ phase = "start"
  /\ init_err = NoErr
  /\ self = NoSelf
  /\ Blank

\* SleepStaging(raw, eeg_name, eog_name=..., emg_name=..., metadata=...)
Construct ==
  /\ phase = "start"
  /\ \E a \in AllArgs :
       \E new \in {New(a)} :
         /\ args' = a
         /\ init_err' = new.err
         /\ self' = new.self
         /\ phase' = IF Raised(new.err) THEN "rejected" ELSE "alive"
  /\ UNCHANGED << attrs, heap, held, call, ncalls, roll >>

\* The state a public call leaves, from its result r; kind is "features" or
\* "proba" when the call returns a frame, which the caller then keeps.
Finish(op, path, r, kind) ==
  /\ attrs' = r.at
  /\ held' = IF ~Raised(r.raised) /\ kind # None
             THEN Append(held, [ref |-> r.ret.ref, kind |-> kind,
                                dirty |-> FALSE])
             ELSE held
  /\ heap' = Collect(r.h, r.at, held')
  /\ call' = [op |-> op, path |-> path, ev |-> r.ev, raised |-> r.raised,
              ret |-> r.ret, X |-> r.X, proba |-> None]
  /\ ncalls' = ncalls + 1
  /\ UNCHANGED << args, phase, init_err, self, roll >>

CanCall == phase = "alive" /\ ncalls < MaxCalls

Fit ==
  /\ CanCall
  /\ \E r \in {DoFit(self, attrs, heap, held, << >>)} :
       Finish("fit", None, r, None)

GetFeatures ==
  /\ CanCall
  /\ Len(held) < MaxHeld
  /\ \E r \in {DoGetFeatures(self, attrs, heap, held, << >>)} :
       Finish("get_features", None, r, "features")

Predict ==
  /\ CanCall
  /\ \E p \in Paths :
       \E r \in {DoPredict(self, attrs, heap, held, << >>, p, ncalls + 1)} :
         Finish("predict", p, r, None)

PredictProba ==
  /\ CanCall
  /\ Len(held) < MaxHeld
  /\ \E p \in Paths :
       \E r \in {DoPredictProba(self, attrs, heap, held, << >>, p,
                                ncalls + 1)} :
         Finish("predict_proba", p, r, "proba")

PlotPredictProba ==
  /\ CanCall
  /\ \E proba \in ProbaArgs :
       \E r \in {DoPlotPredictProba(attrs, heap, << >>, proba)} :
         call' = [op |-> "plot_predict_proba", path |-> None, ev |-> r.ev,
                  raised |-> r.raised, ret |-> r.ret, X |-> r.X,
                  proba |-> proba]
  /\ ncalls' = ncalls + 1
  /\ UNCHANGED << args, phase, init_err, self, attrs, heap, held, roll >>

\* The caller writes to a frame it was handed: it overwrites the first
\* column, or drops it in place.
Overwrite(fr) == Frame([fr.cols EXCEPT ![1] = Col(fr.cols[1].name, -1)], fr.nrows)
DropFirst(fr) == Frame(Tail(fr.cols), fr.nrows)

Mutate ==
  /\ phase = "alive"
  /\ \E i \in DOMAIN held :
       /\ ~held[i].dirty
       /\ \E fr \in {Overwrite(heap[held[i].ref]), DropFirst(heap[held[i].ref])} :
            heap' = [heap EXCEPT ![held[i].ref] = fr]
       /\ held' = [held EXCEPT ![i].dirty = TRUE]
  /\ UNCHANGED << args, phase, init_err, self, attrs, call, ncalls, roll >>

\* The caller lets go of a frame.
Release ==
  /\ phase = "alive"
  /\ \E i \in DOMAIN held :
       /\ held' = [j \in 1..(Len(held) - 1) |->
                     IF j < i THEN held[j] ELSE held[j + 1]]
       /\ heap' = Collect(heap, attrs, held')
  /\ UNCHANGED << args, phase, init_err, self, attrs, call, ncalls, roll >>

Next ==
  \/ Fit
  \/ GetFeatures
  \/ Predict
  \/ PredictProba
  \/ PlotPredictProba
  \/ Mutate
  \/ Release

Spec == Init /\ [][Next]_vars

\* fit alone, on many recordings.
InitFit ==
  /\ \E a \in FitArgs :
       \E new \in {New(a)} :
         /\ ~Raised(new.err)
         /\ args = a
         /\ self = new.self
  /\ phase = "alive"
  /\ init_err = NoErr
  /\ Blank

SpecFit == InitFit /\ [][Fit]_vars

SpecNew == InitNew /\ [][Construct]_vars

\* The past-only column alone: a base feature of a recording of at least
\* five minutes, its values drawn from BaseValues; fit on that recording;
\* then fit on a second recording whose feature differs at one epoch.
MaxEpochs == 11
MinEpochs == (MinMinutes * 60) \div EpochSec
BaseValues == {0, 1}

InitRoll ==
  /\ \E n \in MinEpochs..MaxEpochs :
       \E x \in [1..n -> BaseValues] : roll = [NoRoll EXCEPT !.x = x]
  /\ args = NoArgs
  /\ phase = "start"
  /\ init_err = NoErr
  /\ self = NoSelf
  /\ attrs = NoAttrs
  /\ heap = [l \in Locs |-> NoFrame]
  /\ held = << >>
  /\ call = NoCall
  /\ ncalls = 0

FitFirst ==
  /\ roll.x # << >>
  /\ roll.px = << >>
  /\ \E p \in {RollingPast(roll.x)} :
       roll' = [roll EXCEPT !.px = p, !.nx = RobustScale(p)]
  /\ UNCHANGED << args, phase, init_err, self, attrs, heap, held, call,
                  ncalls >>

FitSecond ==
  /\ roll.px # << >>
  /\ roll.y = << >>
  /\ \E j \in DOMAIN roll.x :
       \E w \in BaseValues \ {roll.x[j]} :
         \E y \in {[roll.x EXCEPT ![j] = w]} :
           \E p \in {RollingPast(y)} :
             roll' = [roll EXCEPT !.y = y, !.py = p, !.ny = RobustScale(p)]
  /\ UNCHANGED << args, phase, init_err, self, attrs, heap, held, call,
                  ncalls >>

SpecRoll == InitRoll /\ [][FitFirst \/ FitSecond]_vars

(***************************************************************************)
(* Properties.  They read the record of the last public call; the          *)
(* attributes and the heap are those the call left.                        *)
(***************************************************************************)
\* A public call is made in this step.
Called(op) == ncalls' = ncalls + 1 /\ call'.op = op

\* The classifier file the last call named, and its feature list.
CallPath == IF call.path = "auto" THEN AutoPath(self) ELSE call.path
CallClfNames == Range(JoblibLoad(CallPath, attrs.feature_name_).feature_name_)
OwnNames == Range(attrs.feature_name_)

\* The last call reached _validate_predict; it raised the feature-mismatch
\* error; it raised the error of a missing model file.
ValidationRan == "_validate_predict" \in Range(call.ev)
MismatchRaised ==
  call.raised.type = "ValueError" /\ call.raised.msg \in {MsgClfOnly, MsgOwnOnly}
NotFoundRaised ==
  call.raised.type = "AssertionError" /\ call.raised.msg = "File does not exist."

\* C1: whenever a call validates a classifier against the feature table,
\* validation passes (no feature-mismatch error, the call goes on to the
\* classifier) exactly when the classifier's set of feature names equals the
\* set of the table's column names; a name on one side only makes it fail.
C1_ValidationIffSameNames ==
  ValidationRan =>
    /\ MismatchRaised <=> (CallClfNames # OwnNames)
    /\ ~MismatchRaised <=> ("clf.predict" \in Range(call.ev))

\* C1: a classifier that lacks one of the table's columns, and requires
\* nothing else, was rejected.
C1_Witness ==
  /\ call.op = "predict"
  /\ call.path = "fewer.joblib"
  /\ ValidationRan
  /\ MismatchRaised
  /\ CallClfNames \subseteq OwnNames

\* C2 as stated: the error of a failed validation names every unmatched
\* feature of both sides, also when both sides have some.
C2_NamesBothSides ==
  MismatchRaised =>
    Range(call.raised.names)
      = (CallClfNames \ OwnNames) \cup (OwnNames \ CallClfNames)

\* C2: the error of a failed validation names exactly the features the
\* classifier requires and the table lacks when there are any, and otherwise
\* exactly the table's columns the classifier does not know; its message
\* says which of the two it lists.
C2_NamesFirstNonEmptySide ==
  MismatchRaised =>
    IF CallClfNames \ OwnNames # {}
    THEN /\ call.raised.msg = MsgClfOnly
         /\ Range(call.raised.names) = CallClfNames \ OwnNames
    ELSE /\ call.raised.msg = MsgOwnOnly
         /\ Range(call.raised.names) = OwnNames \ CallClfNames

\* C2: a classifier with a feature the table lacks and without one the
\* table has was rejected, and the error names the classifier's feature.
C2_Witness ==
  /\ MismatchRaised
  /\ call.path = "skew.joblib"
  /\ CallClfNames \ OwnNames # {}
  /\ OwnNames \ CallClfNames # {}
  /\ call.raised.names = << "eeg_lziv" >>

\* The place of step x among the steps ev of a call; Len(ev) + 1 when the
\* call did not take it.
Pos(ev, x) == Min({i \in DOMAIN ev : ev[i] = x} \cup {Len(ev) + 1})
Took(ev, x) == Pos(ev, x) <= Len(ev)

\* C3: predict_proba on an instance that holds cached probabilities takes
\* no step of its own (no fit, no classifier loaded or run, whatever path
\* it is given), changes no attribute and returns a new frame equal to the
\* cached one; on an instance that holds none it runs the whole of predict,
\* and returns a new frame equal to the probabilities predict stored.
C3_ProbaFromCache ==
  [][Called("predict_proba") =>
       IF attrs.proba # NoRef
       THEN /\ call'.ev = << >>
            /\ ~Raised(call'.raised)
            /\ attrs' = attrs
            /\ call'.ret.kind = "frame"
            /\ call'.ret.ref \notin {NoRef, attrs.proba} \cup HeldRefs(held)
            /\ heap'[call'.ret.ref] = heap[attrs.proba]
       ELSE /\ Took(call'.ev, "predict")
            /\ Pos(call'.ev, "predict") = 1
            /\ Took(call'.ev, "_load_model") \/ Raised(call'.raised)
            /\ ~Raised(call'.raised) =>
                 /\ Took(call'.ev, "clf.predict_proba")
                 /\ call'.ret.kind = "frame"
                 /\ call'.ret.ref \notin {NoRef, attrs'.proba} \cup HeldRefs(held)
                 /\ heap'[call'.ret.ref] = heap'[attrs'.proba]]_vars

\* C3: predict_proba was given a path that names no file and returned the
\* cached probabilities.
C3_Witness ==
  /\ call.op = "predict_proba"
  /\ call.path = "absent.joblib"
  /\ call.ev = << >>
  /\ ~Raised(call.raised)
  /\ call.ret.kind = "frame"
  /\ heap[call.ret.ref] = heap[attrs.proba]

\* C4: a predict that finds no feature table runs fit before it loads any
\* classifier; a predict_proba that finds no predictions runs predict; and
\* an instance that holds predicted labels or probabilities holds a feature
\* table.
C4_Lifecycle ==
  /\ [](attrs.predicted # NoLabels \/ attrs.proba # NoRef
          => attrs.features # NoRef /\ heap[attrs.features] # NoFrame)
  /\ [][/\ (Called("predict") \/ Called("predict_proba"))
             /\ Took(call'.ev, "_load_model")
             /\ attrs.features = NoRef
             => Pos(call'.ev, "fit") < Pos(call'.ev, "_load_model")
        /\ Called("predict") /\ attrs.features = NoRef
             => Pos(call'.ev, "fit") = 1
        /\ Called("predict_proba") /\ attrs.predicted = NoLabels
             => Pos(call'.ev, "predict") = 1]_vars

\* C4: the first call on an instance was predict_proba; it ran predict,
\* which ran fit and then loaded the classifier, and labels are held.
C4_Witness ==
  /\ ncalls = 1
  /\ call.op = "predict_proba"
  /\ Len(call.ev) >= 3
  /\ SubSeq(call.ev, 1, 3) = << "predict", "fit", "_load_model" >>
  /\ attrs.predicted # NoLabels
  /\ attrs.features # NoRef

\* C5: a frame get_features returned is an object of its own: it is neither
\* the instance's table nor another returned frame; as long as its holder
\* has not written to it, it equals the instance's table; and whatever the
\* holders write, the instance's table stays what fit computed and the
\* table a later predict hands to the classifier is a projection of it.
C5_FeaturesAreCopies ==
  /\ \A i \in DOMAIN held :
       /\ held[i].ref \notin {NoRef, attrs.features, attrs.proba}
       /\ \A j \in DOMAIN held : held[i].ref = held[j].ref => i = j
       /\ held[i].kind = "features" /\ ~held[i].dirty
            => heap[held[i].ref] = heap[attrs.features]
  /\ attrs.features # NoRef => heap[attrs.features] = FitFrameOf(self)
  /\ call.X # NoFrame
       => call.X = Project(FitFrameOf(self), Names(call.X.cols))

\* C5: the caller holds two frames from get_features, has written to the
\* first before the last call returned the second, and the second is the
\* unchanged table.
C5_Witness ==
  /\ Len(held) = 2
  /\ call.op = "get_features"
  /\ held[1].kind = "features" /\ held[1].dirty
  /\ held[2].kind = "features" /\ ~held[2].dirty
  /\ heap[held[1].ref] # heap[attrs.features]
  /\ heap[held[2].ref] = FitFrameOf(self)

\* The arguments pass every check of the constructor other than the one on
\* the sampling rate.
ValidMetadata(md) ==
  /\ MetaHas(md, "age") => 0 < MetaGet(md, "age") /\ MetaGet(md, "age") < 120
  /\ MetaHas(md, "male") => MetaGet(md, "male") \in {0, 1}
OtherwiseValid(a) ==
  /\ ValidMetadata(a.metadata)
  /\ {a.eeg_name, a.eog_name, a.emg_name} \ {None} \subseteq RawChannels
  /\ (IF a.sfreq # TargetSf THEN Resample(a.n_times, a.sfreq) ELSE a.n_times)
       >= MinMinutes * 60 * TargetSf

\* C6 as stated: a recording that is valid in everything but possibly its
\* sampling rate is rejected by the constructor exactly when the rate is
\* below 80 Hz; at 80 Hz it is accepted.
C6_RejectedIffBelow80 ==
  phase # "start" /\ OtherwiseValid(args)
    => (phase = "rejected" <=> args.sfreq < SfLimit)

\* The last call failed on the classifier file: features mismatch or no
\* such file.
ModelErrorRaised == MismatchRaised \/ NotFoundRaised

\* C7: a feature-mismatch or model-not-found error comes from predict or
\* predict_proba only (never from fit or get_features, which do not look
\* at a classifier); the instance then still holds the feature table fit
\* computed, and a get_features call that follows returns a copy of it
\* without computing it again.
C7_ModelErrorsOnlyAtPredict ==
  /\ [](ModelErrorRaised =>
          /\ call.op \in {"predict", "predict_proba"}
          /\ attrs.features # NoRef
          /\ heap[attrs.features] = FitFrameOf(self))
  /\ [][/\ Called("fit") \/ Called("get_features")
             => /\ ~Took(call'.ev, "_load_model")
                /\ call'.raised.type \in {None, "ValueError"}
                /\ call'.raised.msg \notin {MsgClfOnly, MsgOwnOnly}
        /\ ModelErrorRaised /\ Called("get_features")
             => /\ call'.ev = << >>
                /\ ~Raised(call'.raised)
                /\ call'.ret.kind = "frame"
                /\ heap'[call'.ret.ref] = heap[attrs.features]
                /\ attrs' = attrs]_vars

\* C7: the first call was a predict that computed the features itself and
\* then failed on a mismatching classifier; the features are held.
C7_Witness ==
  /\ ncalls = 1
  /\ call.op = "predict"
  /\ MismatchRaised
  /\ Pos(call.ev, "fit") = 1
  /\ attrs.features # NoRef
  /\ heap[attrs.features] = FitFrameOf(self)
  /\ attrs.predicted = NoLabels

OtherRecording(s) ==
  [s EXCEPT !.data = [n |-> [i \in DOMAIN s.ch_types |-> 60000], sig |-> 7,
                      finite |-> TRUE],
            !.metadata = [has |-> s.metadata.has,
                          items |-> Reverse([i \in DOMAIN s.metadata.items |->
                                               [k |-> s.metadata.items[i].k,
                                                v |-> 1]])]]

\* C9: after fit the columns of the feature table are in ascending label
\* order without repetition, and feature_name_ is that sequence of labels;
\* the labels are those of any recording with the same channel roles and
\* metadata keys, however many epochs it has (so, being sorted, the same
\* sequence); and fitting again leaves the same labels and the same table.
C9_ColumnsSorted ==
  /\ [](attrs.features # NoRef =>
          /\ attrs.feature_name_ = Names(heap[attrs.features].cols)
          /\ IsSorted(attrs.feature_name_)
          /\ Cardinality(Range(attrs.feature_name_)) = Len(attrs.feature_name_)
          /\ Range(attrs.feature_name_)
               = Range(Names(FitUnsorted(OtherRecording(self)).cols)))
  /\ [][Called("fit") /\ attrs.features # NoRef
          => /\ attrs'.feature_name_ = attrs.feature_name_
             /\ heap'[attrs'.features] = heap[attrs.features]]_vars

\* C9: a recording with EMG whose metadata gives male before age has been
\* fitted twice.
C9_Witness ==
  /\ ncalls = 2
  /\ call.op = "fit"
  /\ attrs.features # NoRef
  /\ "emg" \in Range(self.ch_types)
  /\ Len(self.metadata.items) = 2
  /\ self.metadata.items[1].k = "male"
  /\ IsSorted(attrs.feature_name_)

\* C10 as stated: a fit that completes returns the instance itself.
C10_FitReturnsSelf ==
  call.op = "fit" /\ ~Raised(call.raised) => call.ret = RetSelf

\* C11 as stated: plot_predict_proba called without a proba argument on an
\* instance that holds no probability table raises the ValueError "Must
\* call .predict_proba before this function", whether or not the features
\* have been computed.
C11_PlotWithoutProbaIsValueError ==
  call.op = "plot_predict_proba" /\ call.proba = None /\ attrs.proba = NoRef
    => /\ call.raised.type = "ValueError"
       /\ call.raised.msg = MsgCallProbaFirst

\* Both recordings have been fitted; they agree on the epochs lo..hi.
BothFitted == roll.nx # << >> /\ roll.ny # << >>
AgreeOn(lo, hi) == \A k \in lo..hi : roll.x[k] = roll.y[k]

C13_LabelsAndProbaFromSameCall ==
  IF attrs.predicted = NoLabels
  THEN attrs.proba = NoRef
  ELSE attrs.proba # NoRef /\ attrs.proba_src = attrs.predicted.by

====
